---- MODULE Spec2Model ----
(***************************************************************************)
(* Model of the API gateway (services/api-gateway/app): the bearer-token   *)
(* guard of auth.py and, from main.py, the retrying forwarder              *)
(* _make_request_with_retry, the two upstream wrappers and the three       *)
(* protected route handlers with the process-wide order cache.             *)
(*                                                                         *)
(* Every inbound request is a coroutine.  A step of the model is what a    *)
(* coroutine does between two suspension points: the suspension points     *)
(* are the upstream call (await client.get / client.post), the close of    *)
(* the client on leaving its async with block when the connection of the   *)
(* response was kept alive, and the backoff sleep (await asyncio.sleep).   *)
(* The guard and the handler code around them never suspend.               *)
(***************************************************************************)
EXTENDS Integers, Sequences, FiniteSets, TLC

\* ------------------------------------------------------------------ bounds
\* the clock runs from 0 to MaxTime
MaxTime == 1
\* largest max_retries argument of a direct forwarder call
MaxRetriesArg == 4
\* expires_delta of a direct create_access_token call: -MaxDelta..MaxDelta minutes
MaxDelta == 2

\* the coroutines that serve requests side by side; one that has returned
\* its response serves the next request
Reqs == {1, 2}

\* ------------------------------------------------------------------ values
DefaultMaxRetries == 3
BaseDelay == 1

OrderIds == {"o1", "o2"}
\* OrderStatus, reduced to its id and its status field
Statuses == {"created"}
OrderStatus == [id : OrderIds, status : Statuses]
NoBody == [id |-> "none", status |-> "none"]

Methods == {"GET", "get", "POST", "PUT"}

\* str.upper() on the method names above
Upper(m) == IF m = "get" THEN "GET" ELSE m

\* what one attempt against upstream can end with
RespCodes == {200, 201, 404, 500}
ConnectFailures == {"ConnectTimeout", "ConnectError"}
OtherFailures == {"ReadTimeout"}

\* an outcome: an upstream response ("resp"), a returned model ("json"),
\* an HTTPException ("http") or any other exception ("exc")
Out(kind, code, body, text) ==
    [kind |-> kind, code |-> code, body |-> body, text |-> text]
NoOut == Out("none", 0, NoBody, "")

UpstreamResponses ==
    { Out("resp", 200, b, "body") : b \in OrderStatus }
    \cup { Out("resp", 201, b, "body") : b \in OrderStatus }
    \cup { Out("resp", 404, NoBody, "no such order"),
           Out("resp", 500, NoBody, "upstream failure") }
AttemptResults ==
    UpstreamResponses
    \cup { Out("exc", 0, NoBody, e) : e \in ConnectFailures \cup OtherFailures }

\* ------------------------------------------------------------------ state
VARIABLES
    req,      \* per slot: the route being served and the order id it asked for
    fwd,      \* per slot: the _make_request_with_retry call of that request
    cache,    \* _local_cache: order id -> OrderStatus
    users,    \* _users_cache: username -> UserInDB
    now,      \* the clock read by token verification
    last      \* the response most recently returned, with what it did

vars == <<req, fwd, cache, users, now, last>>

\* ------------------------------------------------------------------ forwarder
\* A call of _make_request_with_retry.  attempt is the loop variable; sent,
\* fails and got count the attempts issued, the attempts that ended in a
\* connection failure and the responses received; sleeps lists the backoff
\* sleeps in seconds; final is the result of the attempt that ended the call.
\* phase is where the call stands: in the loop, awaiting the upstream call
\* ("inflight"), awaiting the close of the client with the response in hand
\* ("closing"), asleep ("sleeping") or ended ("done").
NoCall ==
    [method |-> "none", max_retries |-> 0, attempt |-> 0, phase |-> "none",
     sent |-> 0, fails |-> 0, got |-> 0, sleeps |-> << >>,
     final |-> NoOut, out |-> NoOut]

NewCall(method, max_retries) ==
    [NoCall EXCEPT !.method = method, !.max_retries = max_retries,
                   !.phase = "loop"]

Detail503(e) == IF e = "ConnectTimeout" THEN "Service unavailable: ConnectTimeout"
                ELSE "Service unavailable: ConnectError"

\* the loop head and the body up to the await of the upstream call
StartAttempt(f) ==
    IF f.attempt >= f.max_retries
    THEN [f EXCEPT !.phase = "done",
                   !.out = Out("http", 503, NoBody, "Service unavailable after retries")]
    ELSE IF Upper(f.method) \notin {"GET", "POST"}
    THEN [f EXCEPT !.phase = "done",
                   !.out = Out("exc", 0, NoBody, "ValueError")]
    ELSE [f EXCEPT !.phase = "inflight", !.sent = @ + 1]

\* AttemptResult with the last failure treated as one more retry
AttemptResultOffByOne(f, res) ==
    IF res.kind = "resp"
    THEN [f EXCEPT !.phase = "done", !.got = @ + 1, !.final = res, !.out = res]
    ELSE IF res.text \in ConnectFailures
    THEN IF f.attempt < f.max_retries
         THEN [f EXCEPT !.phase = "sleeping", !.fails = @ + 1,
                        !.sleeps = Append(@, BaseDelay * (f.attempt + 1))]
         ELSE [f EXCEPT !.phase = "done", !.fails = @ + 1, !.final = res,
                        !.out = Out("http", 503, NoBody, Detail503(res.text))]
    ELSE [f EXCEPT !.phase = "done", !.final = res, !.out = res]

\* AttemptResult with a 5xx response retried like a connection failure
AttemptResultRetry5xx(f, res) ==
    IF res.kind = "resp" /\ res.code < 500
    THEN [f EXCEPT !.phase = "done", !.got = @ + 1, !.final = res, !.out = res]
    ELSE IF res.kind = "resp" \/ res.text \in ConnectFailures
    THEN IF f.attempt < f.max_retries - 1
         THEN [f EXCEPT !.phase = "sleeping",
                        !.got = IF res.kind = "resp" THEN @ + 1 ELSE @,
                        !.fails = IF res.kind = "resp" THEN @ ELSE @ + 1,
                        !.sleeps = Append(@, BaseDelay * (f.attempt + 1))]
         ELSE [f EXCEPT !.phase = "done", !.final = res,
                        !.got = IF res.kind = "resp" THEN @ + 1 ELSE @,
                        !.fails = IF res.kind = "resp" THEN @ ELSE @ + 1,
                        !.out = Out("http", 503, NoBody, Detail503(res.text))]
    ELSE [f EXCEPT !.phase = "done", !.final = res, !.out = res]

\* AttemptResult with an exponential backoff in place of the linear one
AttemptResultExpBackoff(f, res) ==
    IF res.kind = "resp"
    THEN [f EXCEPT !.phase = "done", !.got = @ + 1, !.final = res, !.out = res]
    ELSE IF res.text \in ConnectFailures
    THEN IF f.attempt < f.max_retries - 1
         THEN [f EXCEPT !.phase = "sleeping", !.fails = @ + 1,
                        !.sleeps = Append(@, BaseDelay * (2 ^ f.attempt))]
         ELSE [f EXCEPT !.phase = "done", !.fails = @ + 1, !.final = res,
                        !.out = Out("http", 503, NoBody, Detail503(res.text))]
    ELSE [f EXCEPT !.phase = "done", !.final = res, !.out = res]

\* the attempt in flight ends with res: return, except-branch or propagation
AttemptResult(f, res) ==
    IF res.kind = "resp"
    THEN [f EXCEPT !.phase = "done", !.got = @ + 1, !.final = res, !.out = res]
    ELSE IF res.text \in ConnectFailures
    THEN IF f.attempt < f.max_retries - 1
         THEN [f EXCEPT !.phase = "sleeping", !.fails = @ + 1,
                        !.sleeps = Append(@, BaseDelay * (f.attempt + 1))]
         ELSE [f EXCEPT !.phase = "done", !.fails = @ + 1, !.final = res,
                        !.out = Out("http", 503, NoBody, Detail503(res.text))]
    ELSE [f EXCEPT !.phase = "done", !.final = res, !.out = res]

\* Leaving the async with block with the response to return: the client is
\* closed.  When the connection was kept alive its close awaits, and the
\* call returns only when it is resumed; when the server has closed the
\* connection the call returns at once.
LeaveClient(f, keep) ==
    IF f.phase = "done" /\ f.out.kind = "resp" /\ keep
    THEN [f EXCEPT !.phase = "closing", !.out = NoOut]
    ELSE f

\* the client is closed: return resp
AfterClose(f) == [f EXCEPT !.phase = "done", !.out = f.final]

\* the sleep is over: next iteration of the loop
AfterSleep(f) == StartAttempt([f EXCEPT !.attempt = @ + 1])

\* ------------------------------------------------------------------ auth.py
SecretKey == "JWT_SECRET"
Keys == {SecretKey, "other-key"}

Hash(password) == [scheme |-> "argon2", of |-> password]
verify_password(plain, hashed) == hashed = Hash(plain)

Usernames == {"testuser", "admin"}
_initial_users ==
    [u \in Usernames |->
        IF u = "testuser"
        THEN [user_id |-> "u1", username |-> "testuser", password |-> "secret",
              disabled |-> FALSE]
        ELSE [user_id |-> "u2", username |-> "admin", password |-> "admin123",
              disabled |-> FALSE]]

NoUser == [user_id |-> "none", username |-> "none",
           hashed_password |-> [scheme |-> "none", of |-> ""], disabled |-> FALSE]
NoUsers == [u \in {} |-> NoUser]

\* get_user that fills the store from the seed on every call
get_userReseed(us, username) ==
    LET filled == IF DOMAIN _initial_users # {}
                  THEN [u \in DOMAIN _initial_users |->
                          [user_id |-> _initial_users[u].user_id,
                           username |-> _initial_users[u].username,
                           hashed_password |-> Hash(_initial_users[u].password),
                           disabled |-> _initial_users[u].disabled]]
                  ELSE us
    IN [users |-> filled,
        user |-> IF username \in DOMAIN filled THEN filled[username] ELSE NoUser]

\* get_user: fills the empty store from the seed, then looks the name up;
\* gives the store after the call and the user found (NoUser for None)
get_user(us, username) ==
    LET filled == IF DOMAIN us = {} /\ DOMAIN _initial_users # {}
                  THEN [u \in DOMAIN _initial_users |->
                          [user_id |-> _initial_users[u].user_id,
                           username |-> _initial_users[u].username,
                           hashed_password |-> Hash(_initial_users[u].password),
                           disabled |-> _initial_users[u].disabled]]
                  ELSE us
    IN [users |-> filled,
        user |-> IF username \in DOMAIN filled THEN filled[username] ELSE NoUser]

\* no token: a request without an Authorization header, a login that was
\* refused
NoTok == [sub |-> "none", exp |-> 0, key |-> "none"]

\* A bearer token: the subject claim ("none": no sub claim), the exp claim
\* and the key it was signed with.
Subjects == Usernames \cup {"ghost", "none"}
Tokens == [sub : Subjects, exp : 0..MaxTime, key : Keys]

\* an Authorization header whose scheme is not Bearer
NotBearer == [sub |-> "none", exp |-> 0, key |-> "basic"]

\* what a request to a protected route can carry as credentials
Credentials == Tokens \cup {NoTok, NotBearer}

\* jwt.decode: the signature is checked against SECRET_KEY, then exp against
\* the clock (a token is expired when exp < now)
jwt_decode(tok, t) == tok.key = SecretKey /\ ~(tok.exp < t)

\* authenticate_user: the store after the call and the user (NoUser for None)
authenticate_user(us, username, password) ==
    LET g == get_user(us, username)
    IN IF g.user = NoUser THEN g
       ELSE IF ~verify_password(password, g.user.hashed_password)
       THEN [g EXCEPT !.user = NoUser]
       ELSE g

\* The clock counts minutes.  expires_delta is Optional[timedelta]: absent,
\* or a number of minutes.
ACCESS_TOKEN_EXPIRE_MINUTES == 30
DefaultExpireMinutes == 15
NoDelta == [given |-> FALSE, minutes |-> 0]
Delta(m) == [given |-> TRUE, minutes |-> m]
Deltas == {NoDelta} \cup {Delta(m) : m \in (0 - MaxDelta)..MaxDelta}

\* create_access_token at time t: a timedelta of zero is falsy, as None is
create_access_token(sub, expires_delta, t) ==
    [sub |-> sub,
     exp |-> IF expires_delta.given /\ expires_delta.minutes # 0
             THEN t + expires_delta.minutes
             ELSE t + DefaultExpireMinutes,
     key |-> SecretKey]

\* HTTPException(401, "Incorrect username or password",
\*               headers={"WWW-Authenticate": "Bearer"})
Login401 == Out("http", 401, NoBody, "Incorrect username or password")
LoginOk == Out("json", 200, NoBody, "bearer")

\* login that tells an unknown user from a wrong password
loginTellsApart(us, username, password, t) ==
    LET a == authenticate_user(us, username, password)
    IN IF get_user(us, username).user = NoUser
       THEN [users |-> a.users, resp |-> Out("http", 404, NoBody, "User not found"),
             tok |-> NoTok]
       ELSE IF a.user = NoUser
       THEN [users |-> a.users, resp |-> Login401, tok |-> NoTok]
       ELSE [users |-> a.users, resp |-> LoginOk,
             tok |-> create_access_token(a.user.username,
                                         Delta(ACCESS_TOKEN_EXPIRE_MINUTES), t)]

\* login that puts the user_id in the sub claim
loginSubUserId(us, username, password, t) ==
    LET a == authenticate_user(us, username, password)
    IN IF a.user = NoUser
       THEN [users |-> a.users, resp |-> Login401, tok |-> NoTok]
       ELSE [users |-> a.users, resp |-> LoginOk,
             tok |-> create_access_token(a.user.user_id,
                                         Delta(ACCESS_TOKEN_EXPIRE_MINUTES), t)]

\* login at time t: the store after it, the response and the token in it
login(us, username, password, t) ==
    LET a == authenticate_user(us, username, password)
    IN IF a.user = NoUser
       THEN [users |-> a.users, resp |-> Login401, tok |-> NoTok]
       ELSE [users |-> a.users, resp |-> LoginOk,
             tok |-> create_access_token(a.user.username,
                                         Delta(ACCESS_TOKEN_EXPIRE_MINUTES), t)]

Credentials401 == Out("http", 401, NoBody, "Could not validate credentials")
Inactive400 == Out("http", 400, NoBody, "Inactive user")
Passed == Out("ok", 0, NoBody, "")

\* get_current_user without the check that the user was found
get_current_userNoneAccepted(tok, us, t) ==
    IF ~jwt_decode(tok, t) \/ tok.sub = "none"
    THEN [users |-> us, user |-> NoUser, out |-> Credentials401]
    ELSE LET g == get_user(us, tok.sub)
         IN [users |-> g.users, user |-> g.user, out |-> Passed]

get_current_user(tok, us, t) ==
    IF ~jwt_decode(tok, t) \/ tok.sub = "none"
    THEN [users |-> us, user |-> NoUser, out |-> Credentials401]
    ELSE LET g == get_user(us, tok.sub)
         IN [users |-> g.users, user |-> g.user,
             out |-> IF g.user = NoUser THEN Credentials401 ELSE Passed]

\* get_current_active_user without the disabled check
get_current_active_userNoCheck(cu) == cu

get_current_active_user(cu) ==
    IF cu.out # Passed THEN cu
    ELSE IF cu.user.disabled THEN [cu EXCEPT !.out = Inactive400]
    ELSE cu

NotAuthenticated403 == Out("http", 403, NoBody, "Not authenticated")
InvalidScheme403 == Out("http", 403, NoBody, "Invalid authentication credentials")

\* security = HTTPBearer(): the dependency of get_current_user, which answers
\* 403 itself when the request has no Authorization header or another scheme
HTTPBearer(cred) ==
    IF cred = NoTok THEN NotAuthenticated403
    ELSE IF cred = NotBearer THEN InvalidScheme403
    ELSE Passed

\* the dependency chain of every protected route: HTTPBearer, then
\* get_current_user, then get_current_active_user
Guard(cred, us, t) ==
    IF HTTPBearer(cred) # Passed
    THEN [users |-> us, user |-> NoUser, out |-> HTTPBearer(cred)]
    ELSE get_current_active_user(get_current_user(cred, us, t))

\* ------------------------------------------------------------------ main.py
NoCache == [k \in {} |-> NoBody]
Put(c, k, v) == [x \in DOMAIN c \cup {k} |-> IF x = k THEN v ELSE c[x]]
Entry(c, k) == IF k \in DOMAIN c THEN c[k] ELSE NoBody
\* a lookup that never finds the entry
CacheHitNever(c, k) == FALSE

\* order_id in _local_cache
CacheHit(c, k) == k \in DOMAIN c

\* create_order_via_http after the forwarder has ended with o
create_order_via_http(o) ==
    IF o.kind # "resp" THEN o
    ELSE IF o.code # 200 THEN Out("http", o.code, o.body, o.text)
    ELSE Out("json", 200, o.body, "")

\* fetch_order_status after the forwarder has ended with o (NoOut for None)
fetch_order_status(o) ==
    IF o.kind # "resp" THEN o
    ELSE IF o.code = 404 THEN NoOut
    ELSE IF o.code # 200 THEN Out("http", o.code, o.body, o.text)
    ELSE Out("json", 200, o.body, "")

NotFound404 == Out("http", 404, NoBody, "Order not found")

\* create_order without the write to the cache
create_orderNoPut(o, c) ==
    LET created == create_order_via_http(o)
    IN IF created.kind = "json"
       THEN [resp |-> created, cache |-> c, key |-> created.body.id]
       ELSE [resp |-> created, cache |-> c, key |-> "none"]

\* create_order that stores the created order under another key
create_orderOtherKey(o, c) ==
    LET created == create_order_via_http(o)
    IN IF created.kind = "json"
       THEN [resp |-> created,
             cache |-> Put(c, CHOOSE k \in OrderIds : k # created.body.id, created.body),
             key |-> created.body.id]
       ELSE [resp |-> created, cache |-> c, key |-> "none"]

\* create_order from the return of create_order_via_http on:
\* the response and the cache after it
create_order(o, c) ==
    LET created == create_order_via_http(o)
    IN IF created.kind = "json"
       THEN [resp |-> created, cache |-> Put(c, created.body.id, created.body),
             key |-> created.body.id]
       ELSE [resp |-> created, cache |-> c, key |-> "none"]

\* get_order that stores an entry when upstream answers with an error status
get_orderCachesErrors(order_id, o, c) ==
    LET status == fetch_order_status(o)
    IN IF status = NoOut
       THEN [resp |-> NotFound404, cache |-> c, key |-> order_id]
       ELSE IF status.kind = "json"
       THEN [resp |-> status, cache |-> Put(c, order_id, status.body),
             key |-> order_id]
       ELSE [resp |-> status,
             cache |-> IF status.kind = "http" /\ status.code # 503
                       THEN Put(c, order_id, [id |-> order_id, status |-> "created"])
                       ELSE c,
             key |-> order_id]

\* get_order that caches the absence of the order as well
get_orderNegative(order_id, o, c) ==
    LET status == fetch_order_status(o)
    IN IF status = NoOut
       THEN [resp |-> NotFound404, cache |-> Put(c, order_id, [id |-> order_id, status |-> "created"]),
             key |-> order_id]
       ELSE IF status.kind = "json"
       THEN [resp |-> status, cache |-> Put(c, order_id, status.body),
             key |-> order_id]
       ELSE [resp |-> status, cache |-> c, key |-> order_id]

\* get_order from the return of fetch_order_status on
get_order(order_id, o, c) ==
    LET status == fetch_order_status(o)
    IN IF status = NoOut
       THEN [resp |-> NotFound404, cache |-> c, key |-> order_id]
       ELSE IF status.kind = "json"
       THEN [resp |-> status, cache |-> Put(c, order_id, status.body),
             key |-> order_id]
       ELSE [resp |-> status, cache |-> c, key |-> order_id]

\* ------------------------------------------------------------------ requests
Idle == [route |-> "idle", key |-> "none", had |-> FALSE, ok |-> FALSE]

\* no login form
NoForm == [username |-> "none", password |-> "none"]

\* what a step did to the user store: nothing, the first fill from the seed,
\* or a change of a store that was filled
StoreEffect(us, us2) ==
    IF us2 = us THEN "same" ELSE IF DOMAIN us = {} THEN "filled" ELSE "changed"

\* the token is one the guard is meant to admit: signed with the key, not
\* expired, and naming a stored user that is not disabled
Admissible(tok) ==
    /\ tok.key = SecretKey
    /\ tok.exp >= now
    /\ tok.sub \in Usernames
    /\ tok.sub \in DOMAIN users => ~users[tok.sub].disabled

\* a new request is served by the first coroutine that is free
Free(r) == req[r].route = "idle" /\ \A q \in Reqs : q < r => req[q].route # "idle"

\* The record of the response returned by the step that led to the current
\* state (NoLast when that step returned none): the route and order id,
\* whether the token verified and whether its user was disabled when the
\* request came in, whether the guard let the request through, whether the
\* id was cached when the request came in, the response, how the request's
\* forwarder call ended and the number of upstream attempts it made,
\* whether this last step of the request changed the cache, the token the
\* request carried (on /auth/me) or was given (by a login), what the step
\* did to the user store, and the form of a login request.
Returned(route, key, verified, disabled, passed, had, resp, up, sent, c2, tok, us2) ==
    [route |-> route, key |-> key, verified |-> verified, disabled |-> disabled,
     passed |-> passed, had |-> had, resp |-> resp, up |-> up, sent |-> sent,
     wrote |-> c2 # cache, tok |-> tok, store |-> StoreEffect(users, us2),
     form |-> NoForm]
NoLast ==
    [route |-> "none", key |-> "none", verified |-> FALSE, disabled |-> FALSE,
     passed |-> FALSE, had |-> FALSE, resp |-> NoOut, up |-> NoOut, sent |-> 0,
     wrote |-> FALSE, tok |-> NoTok, store |-> "same", form |-> NoForm]

Verifies(tok) == jwt_decode(tok, now) /\ tok.sub # "none"
DisabledNow(tok) == Verifies(tok) /\ get_user(users, tok.sub).user.disabled

Rejected(route, key, tok, g) ==
    /\ last' = Returned(route, key, Verifies(tok), DisabledNow(tok), FALSE,
                        key \in DOMAIN cache, g.out, NoOut, 0, cache, NoTok, g.users)
    /\ UNCHANGED <<req, fwd, cache>>

\* the rest of a handler once its forwarder call has ended with o
Handler(rq, o, c) ==
    IF rq.route = "create" THEN create_order(o, c)
    ELSE IF rq.route = "get" THEN get_order(rq.key, o, c)
    ELSE [resp |-> o, cache |-> c, key |-> rq.key]

\* Slot r, serving rq, has run its forwarder call up to f: either the call
\* is suspended (in flight or asleep) or it has ended and the handler runs
\* to its return.  A direct call of the forwarder keeps its ended call.
Continue(r, rq, f) ==
    IF f.phase # "done" \/ rq.route = "forward"
    THEN /\ req' = [req EXCEPT ![r] = rq]
         /\ fwd' = [fwd EXCEPT ![r] = f]
         /\ last' = NoLast
         /\ UNCHANGED cache
    ELSE LET h == Handler(rq, f.out, cache)
         IN /\ cache' = h.cache
            /\ last' = Returned(rq.route, h.key, rq.ok, FALSE, rq.ok, rq.had,
                                h.resp, f.out, f.sent, h.cache, NoTok, users)
            /\ req' = [req EXCEPT ![r] = Idle]
            /\ fwd' = [fwd EXCEPT ![r] = NoCall]

\* GET /auth/me
read_users_me(tok) ==
    LET g == Guard(tok, users, now)
    IN /\ users' = g.users
       /\ last' = Returned("me", "none", Verifies(tok), DisabledNow(tok),
                           g.out = Passed, FALSE,
                           IF g.out = Passed
                           THEN Out("json", 200, NoBody, g.user.username)
                           ELSE g.out,
                           NoOut, 0, cache, tok, g.users)
       /\ UNCHANGED <<req, fwd, cache, now>>

\* POST /orders, up to the first upstream attempt
CreateOrder(r, tok) ==
    /\ Free(r)
    /\ LET g == Guard(tok, users, now)
       IN /\ users' = g.users
          /\ IF g.out # Passed
             THEN Rejected("create", "none", tok, g)
             ELSE Continue(r, [route |-> "create", key |-> "none", had |-> FALSE,
                               ok |-> Admissible(tok)],
                           StartAttempt(NewCall("POST", DefaultMaxRetries)))
    /\ UNCHANGED now

\* GET /orders/{order_id} without the guard
GetOrderNoGuard(r, tok, order_id) ==
    /\ Free(r)
    /\ users' = users
    /\ IF CacheHit(cache, order_id)
       THEN /\ last' = Returned("get", order_id, TRUE, FALSE, Admissible(tok),
                                order_id \in DOMAIN cache,
                                Out("json", 200, Entry(cache, order_id), ""),
                                NoOut, 0, cache, NoTok, users)
            /\ UNCHANGED <<req, fwd, cache>>
       ELSE Continue(r, [route |-> "get", key |-> order_id,
                         had |-> order_id \in DOMAIN cache,
                         ok |-> Admissible(tok)],
                     StartAttempt(NewCall("GET", DefaultMaxRetries)))
    /\ UNCHANGED now

\* GET /orders/{order_id}, up to the cache hit or the first upstream attempt
GetOrder(r, tok, order_id) ==
    /\ Free(r)
    /\ LET g == Guard(tok, users, now)
       IN /\ users' = g.users
          /\ IF g.out # Passed
             THEN Rejected("get", order_id, tok, g)
             ELSE IF CacheHit(cache, order_id)
             THEN /\ last' = Returned("get", order_id, TRUE, FALSE, Admissible(tok),
                                      order_id \in DOMAIN cache,
                                      Out("json", 200, Entry(cache, order_id), ""),
                                      NoOut, 0, cache, NoTok, g.users)
                  /\ UNCHANGED <<req, fwd, cache>>
             ELSE Continue(r, [route |-> "get", key |-> order_id,
                               had |-> order_id \in DOMAIN cache,
                               ok |-> Admissible(tok)],
                           StartAttempt(NewCall("GET", DefaultMaxRetries)))
    /\ UNCHANGED now

\* the upstream call of slot r ends with res; keep: res is a response whose
\* connection the server keeps alive
Recv(r, res, keep) ==
    /\ fwd[r].phase = "inflight"
    /\ keep => res.kind = "resp"
    /\ Continue(r, req[r], LeaveClient(AttemptResult(fwd[r], res), keep))
    /\ UNCHANGED <<users, now>>

\* the close of the client of slot r is over
Closed(r) ==
    /\ fwd[r].phase = "closing"
    /\ Continue(r, req[r], AfterClose(fwd[r]))
    /\ UNCHANGED <<users, now>>

\* the backoff sleep of slot r ends
Wake(r) ==
    /\ fwd[r].phase = "sleeping"
    /\ Continue(r, req[r], AfterSleep(fwd[r]))
    /\ UNCHANGED <<users, now>>

\* time passes
Tick ==
    /\ now < MaxTime
    /\ now' = now + 1
    /\ last' = NoLast
    /\ UNCHANGED <<req, fwd, cache, users>>

\* an operator sets the disabled flag of a stored user
SetDisabled(u, b) ==
    /\ u \in DOMAIN users
    /\ users[u].disabled # b
    /\ users' = [users EXCEPT ![u].disabled = b]
    /\ last' = NoLast
    /\ UNCHANGED <<req, fwd, cache, now>>

Init ==
    /\ req = [r \in Reqs |-> Idle]
    /\ fwd = [r \in Reqs |-> NoCall]
    /\ cache = NoCache
    /\ users = NoUsers
    /\ now = 0
    /\ last = NoLast

\* The caller of the gateway: the two seeded users differ in nothing the
\* gateway looks at, so its requests are those of one of them.
Caller == "testuser"

\* The credentials the requests of the gateway carry: none, another scheme,
\* a token of the caller signed with the key of the gateway or with another
\* one, or a token signed with the key of the gateway that names no user or
\* an unknown one.  The clock of the gateway stands still, so no token
\* expires while it runs, and the tokens presented are those that expire
\* last.
Presented ==
    {NoTok, NotBearer}
    \cup {c \in Tokens : c.exp = MaxTime /\ c.sub = Caller}
    \cup {c \in Tokens : c.exp = MaxTime /\ c.key = SecretKey /\ c.sub \notin Usernames}

Next ==
    \/ \E tok \in Presented : read_users_me(tok)
    \/ \E r \in Reqs, tok \in Presented : CreateOrder(r, tok)
    \/ \E r \in Reqs, tok \in Presented, id \in OrderIds : GetOrder(r, tok, id)
    \/ \E r \in Reqs, res \in AttemptResults, keep \in BOOLEAN : Recv(r, res, keep)
    \/ \E r \in Reqs : Closed(r)
    \/ \E r \in Reqs : Wake(r)
    \/ \E b \in BOOLEAN : SetDisabled(Caller, b)

\* the gateway serving requests at one instant of the clock
Spec == Init /\ [][Next]_vars

\* ------------------------------------------------------------------ the guard in time
\* login and the guard alone, on the route that does nothing else, as time
\* passes
Passwords == {"secret", "admin123", "wrong"}

\* POST /auth/login
Login(username, password) ==
    LET l == login(users, username, password, now)
    IN /\ users' = l.users
       /\ last' = [Returned("login", "none", FALSE, FALSE, FALSE, FALSE,
                            l.resp, NoOut, 0, cache, l.tok, l.users)
                      EXCEPT !.form = [username |-> username, password |-> password]]
       /\ UNCHANGED <<req, fwd, cache, now>>

NextAuth ==
    \/ \E u \in Usernames \cup {"ghost"}, p \in Passwords : Login(u, p)
    \/ \E tok \in Credentials \cup {last.tok} : read_users_me(tok)
    \/ Tick
    \/ \E u \in Usernames, b \in BOOLEAN : SetDisabled(u, b)

SpecAuth == Init /\ [][NextAuth]_vars

\* ------------------------------------------------------------------ token issue
\* create_access_token called on its own, with any subject and expires_delta;
\* the response on record carries the token and, as its code, the minutes asked
IssueToken(sub, expires_delta) ==
    /\ last' = Returned("issue", "none", FALSE, FALSE, FALSE, FALSE,
                        Out("token", expires_delta.minutes, NoBody,
                            IF expires_delta.given THEN "given" ELSE "absent"),
                        NoOut, 0, cache,
                        create_access_token(sub, expires_delta, now), users)
    /\ UNCHANGED <<req, fwd, cache, users, now>>

NextToken ==
    \/ \E sub \in Usernames \cup {"ghost"}, d \in Deltas : IssueToken(sub, d)
    \/ \E tok \in Credentials \cup {last.tok} : read_users_me(tok)
    \/ Tick

SpecToken == Init /\ [][NextToken]_vars

\* ------------------------------------------------------------------ direct calls
\* _make_request_with_retry called on its own, with any method and max_retries
Call(r, method, max_retries) ==
    /\ Free(r)
    /\ Continue(r, [route |-> "forward", key |-> "none", had |-> FALSE, ok |-> FALSE],
                StartAttempt(NewCall(method, max_retries)))
    /\ UNCHANGED <<users, now>>

\* the caller is done with the ended call
Release(r) ==
    /\ req[r].route = "forward"
    /\ fwd[r].phase = "done"
    /\ req' = [req EXCEPT ![r] = Idle]
    /\ fwd' = [fwd EXCEPT ![r] = NoCall]
    /\ last' = NoLast
    /\ UNCHANGED <<cache, users, now>>

NextRetry ==
    \/ \E r \in Reqs, m \in Methods, n \in 0..MaxRetriesArg : Call(r, m, n)
    \/ \E r \in Reqs, res \in AttemptResults, keep \in BOOLEAN : Recv(r, res, keep)
    \/ \E r \in Reqs : Closed(r)
    \/ \E r \in Reqs : Wake(r)
    \/ \E r \in Reqs : Release(r)

SpecRetry == Init /\ [][NextRetry]_vars

TypeOK ==
    /\ now \in 0..MaxTime
    /\ DOMAIN cache \subseteq OrderIds
    /\ \A k \in DOMAIN cache : cache[k] \in OrderStatus
    /\ \A r \in Reqs : req[r].route \in {"idle", "forward", "create", "get"}
    /\ \A r \in Reqs : fwd[r].phase \in {"none", "inflight", "closing", "sleeping", "done"}

\* ================================================================== claims
\* ------------------------------------------------------------------ forwarder
RECURSIVE Sum(_)
Sum(q) == IF q = << >> THEN 0 ELSE Head(q) + Sum(Tail(q))

\* C1: a call with max_retries = N >= 1 makes at most N attempts; when all N
\* attempts have failed with a connection failure the call has ended with
\* 503 carrying the reason of the last failure, after exactly N attempts.
C1_AtMostNAttempts ==
    \A r \in Reqs :
        LET f == fwd[r]
        IN (f.phase # "none" /\ f.max_retries >= 1) =>
              /\ f.sent <= f.max_retries
              /\ f.fails <= f.sent
              /\ f.fails = f.max_retries =>
                    /\ f.phase = "done"
                    /\ f.sent = f.max_retries
                    /\ f.final.text \in ConnectFailures
                    /\ f.out = Out("http", 503, NoBody, Detail503(f.final.text))

\* a call with the default of 3 attempts has failed 3 times and ended with 503
C1_Witness ==
    \E r \in Reqs :
        /\ fwd[r].max_retries = DefaultMaxRetries
        /\ fwd[r].fails = DefaultMaxRetries
        /\ fwd[r].phase = "done"
        /\ fwd[r].out.code = 503

\* C2: once a response has been received, whatever its status, the call
\* makes no further attempt: it is closing its client or has ended, and it
\* ends with that response unchanged; the response was received on the last
\* attempt made and no sleep followed it.
C2_ResponseEndsCall ==
    \A r \in Reqs :
        LET f == fwd[r]
        IN f.got >= 1 =>
              /\ f.phase \in {"closing", "done"}
              /\ f.got = 1
              /\ f.final.kind = "resp"
              /\ f.phase = "done" => f.out = f.final
              /\ AfterClose(f).out = f.final
              /\ f.sent = f.fails + 1
              /\ Len(f.sleeps) = f.fails

\* a 500 response, received after a failed attempt, has been returned
C2_Witness ==
    \E r \in Reqs :
        /\ fwd[r].phase = "done"
        /\ fwd[r].out.kind = "resp"
        /\ fwd[r].out.code = 500
        /\ fwd[r].fails >= 1

\* C3: the k-th sleep of a call lasts base_delay * k = k seconds, a sleep
\* follows every failed attempt but the last one allowed, and a call with the
\* default of 3 attempts that is exhausted has slept 1 then 2 seconds, 3 in all.
C3_LinearBackoff ==
    \A r \in Reqs :
        LET f == fwd[r]
        IN (f.phase # "none" /\ f.max_retries >= 1) =>
              /\ \A k \in 1..Len(f.sleeps) : f.sleeps[k] = BaseDelay * k
              /\ Len(f.sleeps) =
                    IF f.fails < f.max_retries THEN f.fails ELSE f.max_retries - 1
              /\ (f.max_retries = DefaultMaxRetries /\ f.fails = DefaultMaxRetries) =>
                    (f.sleeps = <<1, 2>> /\ Sum(f.sleeps) = 3)

\* a call allowed 4 attempts is in its third sleep
C3_Witness ==
    \E r \in Reqs :
        /\ fwd[r].phase = "sleeping"
        /\ Len(fwd[r].sleeps) = 3

\* C4: every ended call of the forwarder has ended with an upstream response
\* or with UpstreamUnavailable (503).
C4_OnlyTwoOutcomes ==
    \A r \in Reqs :
        (req[r].route = "forward" /\ fwd[r].phase = "done") =>
            \/ fwd[r].out.kind = "resp"
            \/ fwd[r].out.kind = "http" /\ fwd[r].out.code = 503

\* ------------------------------------------------------------------ cache
\* C5: of the requests that are being served for the same order id after a
\* cache miss, at most one has issued an upstream fetch.
C5_SingleFlight ==
    \A r1, r2 \in Reqs :
        (r1 # r2 /\ req[r1].route = "get" /\ req[r2].route = "get"
                 /\ req[r1].key = req[r2].key) =>
            ~(fwd[r1].sent >= 1 /\ fwd[r2].sent >= 1)

\* C6: no step removes an order id from the cache, and a GET /orders/{id}
\* that the guard lets through while the id is cached returns the cached
\* OrderStatus without an upstream attempt.
C6_CachedStaysAndServes ==
    /\ [][\A k \in DOMAIN cache : k \in DOMAIN cache']_vars
    /\ [](  (last.route = "get" /\ last.passed /\ last.had) =>
               /\ last.key \in DOMAIN cache
               /\ last.resp = Out("json", 200, Entry(cache, last.key), "")
               /\ last.sent = 0
               /\ last.up = NoOut
               /\ ~last.wrote)

\* a GET has just been answered from the cache
C6_Witness ==
    /\ last.route = "get"
    /\ last.passed
    /\ last.had
    /\ last.resp.kind = "json"
    /\ last.sent = 0

\* C7 as stated: when a GET whose upstream fetch answered 404 returns, it
\* returns 404 'Order not found' and the cache has no entry for its id.
C7_NotFoundLeavesNoEntry ==
    (last.route = "get" /\ last.up.kind = "resp" /\ last.up.code = 404) =>
        /\ last.resp = NotFound404
        /\ last.key \notin DOMAIN cache

\* C7 as amended: a GET whose upstream fetch answered 404 returns 404 'Order
\* not found' without writing the cache, so its id is cached only if another
\* request cached it; and every GET let through for an id that is not cached
\* when it comes in calls upstream.
C7_NotFoundNotCached ==
    /\ (last.route = "get" /\ last.up.kind = "resp" /\ last.up.code = 404) =>
          /\ last.resp = NotFound404
          /\ ~last.wrote
          /\ ~last.had
    /\ (last.route = "get" /\ last.passed /\ ~last.had) => last.sent >= 1

\* a GET has just returned 404 after upstream answered 404
C7_Witness ==
    /\ last.route = "get"
    /\ last.up.kind = "resp"
    /\ last.up.code = 404
    /\ last.resp = NotFound404
    /\ last.key \notin DOMAIN cache

\* C8: when POST /orders returns the created order o, the response body is
\* the upstream body and the cache holds o under o.id; a GET /orders/{o.id}
\* that comes in next returns o from the cache without an upstream attempt.
C8_WriteThrough ==
    /\ [](  (last.route = "create" /\ last.resp.kind = "json") =>
               /\ last.up.kind = "resp"
               /\ last.resp.body = last.up.body
               /\ last.key = last.resp.body.id
               /\ last.key \in DOMAIN cache
               /\ Entry(cache, last.key) = last.resp.body)
    /\ [][  (/\ last.route = "create" /\ last.resp.kind = "json"
             /\ last'.route = "get" /\ last'.passed /\ last'.had
             /\ last'.key = last.resp.body.id) =>
               /\ last'.resp = Out("json", 200, last.resp.body, "")
               /\ last'.sent = 0 ]_vars

\* POST /orders has just returned a created order and written it to the cache
C8_Witness ==
    /\ last.route = "create"
    /\ last.resp.kind = "json"
    /\ last.wrote
    /\ last.key \in DOMAIN cache

\* C9: POST /orders answers by the class of the upstream status: on 2xx it
\* returns the upstream OrderStatus and caches it, on any other status it
\* fails with that status and body and writes nothing.
C9_CreateByStatusClass ==
    (last.route = "create" /\ last.up.kind = "resp") =>
        IF last.up.code \in 200..299
        THEN /\ last.resp = Out("json", 200, last.up.body, "")
             /\ Entry(cache, last.up.body.id) = last.up.body
        ELSE /\ last.resp = Out("http", last.up.code, last.up.body, last.up.text)
             /\ ~last.wrote

\* ------------------------------------------------------------------ guard
\* C10: on each protected route, a request whose token verifies for a user
\* that is disabled when the request comes in is rejected with 400 'Inactive
\* user', before any upstream attempt or cache write.
C10_DisabledRejected ==
    (last.route \in {"me", "create", "get"} /\ last.verified /\ last.disabled) =>
        /\ last.resp = Inactive400
        /\ ~last.passed
        /\ last.sent = 0
        /\ ~last.wrote

\* a GET /orders/{id} of a disabled user with a verifying token was rejected
C10_Witness ==
    /\ last.route = "get"
    /\ last.verified
    /\ last.disabled
    /\ last.resp = Inactive400

\* ------------------------------------------------------------------ tokens
\* C11: a token is admitted only while now < exp: a request admitted on
\* /auth/me carries a token with now < exp, and a well-signed token of a
\* stored, enabled user presented at now >= exp is answered 401.
C11_AdmittedOnlyBeforeExpiry ==
    (last.route = "me" /\ HTTPBearer(last.tok) = Passed) =>
        /\ last.passed => now < last.tok.exp
        /\ now >= last.tok.exp => last.resp = Credentials401

\* C12: a token made by create_access_token, whatever expires_delta is,
\* expires strictly after the time it is issued at.
C12_ExpiresAfterIssue ==
    last.route = "issue" => last.tok.exp > now

\* the failed logins of the current store and time
SeedPassword(u) == _initial_users[u].password

\* C13: a login with an unknown username and a login with a known username
\* and a wrong password give the same response, the same (absent) token and
\* the same store; a failed login that has been answered was answered 401
\* 'Incorrect username or password'.
C13_SameFailure ==
    /\ \A u \in {"ghost"}, k \in Usernames, p \in Passwords, q \in Passwords :
          q # SeedPassword(k) =>
              login(users, u, p, now) = login(users, k, q, now)
    /\ (last.route = "login" /\ (last.form.username \notin Usernames
                                 \/ last.form.password # SeedPassword(last.form.username))) =>
          /\ last.resp = Login401
          /\ last.tok = NoTok

\* a known user has just been refused for a wrong password
C13_Witness ==
    /\ last.route = "login"
    /\ last.form.username \in Usernames
    /\ last.form.password # SeedPassword(last.form.username)
    /\ last.resp = Login401

\* a seeded user has just logged in with the seed password
SeedLogin ==
    /\ last.route = "login"
    /\ last.form.username \in Usernames
    /\ last.form.password = SeedPassword(last.form.username)

\* the token of a login of a seeded user has just been presented on /auth/me
\* before its exp: only a login gives a token that lasts
\* ACCESS_TOKEN_EXPIRE_MINUTES
LoginTokenPresented ==
    /\ last.route = "me"
    /\ last.tok \notin {NoTok, NotBearer}
    /\ last.tok.key = SecretKey
    /\ last.tok.sub \in Usernames
    /\ last.tok.exp >= ACCESS_TOKEN_EXPIRE_MINUTES
    /\ now < last.tok.exp

\* C14 as stated: a login of a seeded user with that user's password
\* succeeds, and its token, presented to the guard (get_current_user, then
\* get_current_active_user) at any time from its issue to just before its
\* exp, resolves to the user of the same username.
C14_RoundTripAlways ==
    /\ SeedLogin =>
          /\ last.resp = LoginOk
          /\ last.tok # NoTok
          /\ last.tok.exp > now
          /\ \A t \in now..(last.tok.exp - 1) :
                LET g == Guard(last.tok, users, t)
                IN g.out = Passed /\ g.user.username = last.form.username
    /\ LoginTokenPresented =>
          /\ last.passed
          /\ last.resp = Out("json", 200, NoBody, last.tok.sub)

\* C14 as amended: a login of a seeded user with that user's password
\* succeeds whether or not the user is disabled, and its token names the
\* user.  Presented to the guard at any time from its issue to just before
\* its exp, the token resolves to the user of the same username if that user
\* is not disabled at that time, and is answered 400 'Inactive user' if the
\* user is.
C14_RoundTrip ==
    /\ SeedLogin =>
          /\ last.resp = LoginOk
          /\ last.tok # NoTok
          /\ last.tok.sub = last.form.username
          /\ last.tok.exp > now
          /\ last.form.username \in DOMAIN users
          /\ \A t \in now..(last.tok.exp - 1) :
                LET g == Guard(last.tok, users, t)
                IN IF users[last.form.username].disabled
                   THEN g.out = Inactive400
                   ELSE g.out = Passed /\ g.user.username = last.form.username
    /\ LoginTokenPresented =>
          /\ last.tok.sub \in DOMAIN users
          /\ IF users[last.tok.sub].disabled
             THEN ~last.passed /\ last.resp = Inactive400
             ELSE last.passed /\ last.resp = Out("json", 200, NoBody, last.tok.sub)

\* the token that the login of admin has given has just been presented on
\* /auth/me and has resolved to admin
C14_Witness ==
    /\ LoginTokenPresented
    /\ last.tok.sub = "admin"
    /\ last.tok.exp = now + ACCESS_TOKEN_EXPIRE_MINUTES
    /\ last.passed
    /\ last.resp = Out("json", 200, NoBody, "admin")

\* the store as the seed fills it
Seeded == get_user(NoUsers, "none").users

\* C15 as stated: a call of the guard changes neither the user store nor
\* the cache.
C15_GuardChangesNothing ==
    (last.route \in {"me", "create", "get"} /\ last.sent = 0) =>
        /\ last.store = "same"
        /\ ~last.wrote

\* C15 as amended: a call of the guard never changes the cache and never
\* changes a user store that is filled; the first lookup of the process
\* fills the empty store from the seed.  No step but the operator's changes
\* the store in any other way.
C15_GuardOnlyFillsStore ==
    /\ []( (last.route \in {"me", "create", "get"} /\ last.sent = 0) =>
              /\ last.store \in {"same", "filled"}
              /\ last.store = "filled" => users = Seeded
              /\ ~last.wrote )
    /\ [][ users' # users =>
              \/ users = NoUsers /\ users' = Seeded
              \/ \E u \in Usernames, b \in BOOLEAN : SetDisabled(u, b) ]_vars

\* the first call of the guard has just filled the store
C15_Witness ==
    /\ last.route \in {"me", "create", "get"}
    /\ last.store = "filled"
    /\ users = Seeded

\* C16: on /auth/me the guard lets a request through only if it carries a
\* bearer token that is well signed, not expired, names a subject that is a
\* stored user, and that user is not disabled; a bearer token that fails
\* verification, has no subject or names an unknown user is answered 401,
\* and 400 is answered only for a stored, disabled user.  A request that
\* carries no bearer token at all is not let through either.
C16_GuardOrder ==
    last.route = "me" =>
        LET tok == last.tok
            bearer == tok \notin {NoTok, NotBearer}
            verifies == tok.key = SecretKey /\ tok.exp >= now
        IN /\ last.passed =>
                 /\ bearer
                 /\ verifies
                 /\ tok.sub # "none"
                 /\ tok.sub \in DOMAIN users
                 /\ ~users[tok.sub].disabled
                 /\ last.resp = Out("json", 200, NoBody, tok.sub)
           /\ (bearer /\ (~verifies \/ tok.sub = "none" \/ tok.sub \notin DOMAIN users)) =>
                 last.resp = Credentials401
           /\ last.resp = Inactive400 =>
                 /\ verifies
                 /\ tok.sub \in DOMAIN users
                 /\ users[tok.sub].disabled
           /\ (bearer /\ ~last.passed) => last.resp \in {Credentials401, Inactive400}
           /\ ~bearer => last.resp \in {NotAuthenticated403, InvalidScheme403}

\* a well-signed token naming an unknown user has just been answered 401
C16_Witness ==
    /\ last.route = "me"
    /\ last.tok.key = SecretKey
    /\ last.tok.exp >= now
    /\ last.tok.sub = "ghost"
    /\ last.resp = Credentials401

\* ------------------------------------------------------------------ cache
\* C17 as stated: every cache entry stored under key k has id k.
C17_EntryIdIsKey ==
    \A k \in DOMAIN cache : cache[k].id = k

\* C17 as amended: the cache holds, under the key of the request, the body
\* upstream answered with.  A create stores its order under the id of the
\* body, so its entry has the id of its key; a fetch stores the upstream body
\* under the requested id, so its entry has the id of its key exactly when
\* upstream answered with that id; and an entry whose id is not its key is
\* there only since a fetch of that key to which upstream answered with the
\* body of another order.
C17_EntryIsUpstreamBody ==
    /\ []( (last.route \in {"create", "get"} /\ last.wrote) =>
              /\ last.key \in DOMAIN cache
              /\ cache[last.key] = last.up.body
              /\ last.route = "create" => cache[last.key].id = last.key
              /\ (last.route = "get" /\ last.up.body.id = last.key) =>
                    cache[last.key].id = last.key )
    /\ [][ \A k \in DOMAIN cache' :
              cache'[k].id # k =>
                 \/ k \in DOMAIN cache /\ cache[k] = cache'[k]
                 \/ /\ last'.route = "get"
                    /\ last'.key = k
                    /\ last'.up.kind = "resp"
                    /\ last'.up.body = cache'[k] ]_vars

\* a fetch has just stored its entry and both keys hold the order of their id
C17_Witness ==
    /\ last.route = "get"
    /\ last.wrote
    /\ DOMAIN cache = OrderIds
    /\ \A k \in DOMAIN cache : cache[k].id = k

\* C18: a create or a fetch that ends in a failure (503 after the retries,
\* an upstream error status passed through, 404 'Order not found', or an
\* exception of the upstream call) has not changed the cache in the step it
\* ends with, and no step of a request but the one that returns a 200 JSON
\* answer changes the cache at all.
C18_FailureLeavesCache ==
    /\ []( (last.route \in {"create", "get"} /\ last.resp.kind # "json") =>
              ~last.wrote )
    /\ [][ cache' # cache =>
              /\ last'.route \in {"create", "get"}
              /\ last'.resp.kind = "json"
              /\ last'.resp.code = 200 ]_vars

\* a create has just ended with 503 after all its attempts failed while the
\* cache held an entry
C18_Witness ==
    /\ last.route = "create"
    /\ last.resp.kind = "http"
    /\ last.resp.code = 503
    /\ last.sent = DefaultMaxRetries
    /\ cache # NoCache

\* C19: on POST /orders and GET /orders/{id} a request that the guard has
\* rejected is answered 403, 401 or 400 with no upstream attempt, no answer from
\* the cache and no change of the cache; every request that has an upstream
\* call under way, and every request answered from the cache or after an
\* upstream attempt, carried a token the guard admits.
C19_NothingBeforeGuard ==
    /\ \A r \in Reqs : req[r].route \in {"create", "get"} => req[r].ok
    /\ (last.route \in {"create", "get"} /\ ~last.passed) =>
          /\ last.resp \in {NotAuthenticated403, InvalidScheme403,
                            Credentials401, Inactive400}
          /\ last.sent = 0
          /\ last.up = NoOut
          /\ ~last.wrote
    /\ (last.route \in {"create", "get"}
        /\ (last.sent > 0 \/ last.wrote \/ last.resp.kind = "json")) =>
          last.passed

\* a GET of a cached order has just been rejected
C19_Witness ==
    /\ last.route = "get"
    /\ ~last.passed
    /\ last.had
    /\ last.resp = Credentials401
    /\ last.sent = 0

====
